---- MODULE Spec2Model ----
(***************************************************************************)
(* Renderer layer of the wallet: the info and invoice selectors            *)
(* (renderer/reducers/info/selectors.js, renderer/reducers/invoice/        *)
(* selectors.js) and the RequestSummary component                          *)
(* (renderer/components/Request/RequestSummary.js).                        *)
(*                                                                         *)
(* JavaScript values are records [t |-> type, v |-> payload]; strings are  *)
(* TLA+ strings, split and compared character by character.                *)
(***************************************************************************)
EXTENDS Integers, Sequences, FiniteSets, TLC

VARIABLES
    state,      \* the Redux store state read by the selectors
    memo,       \* per memoized selector: last arguments and last result
    ret,        \* the last selector call: selector, store state, returned value
    mounted,    \* RequestSummary: the component is mounted
    payReq,     \* RequestSummary: the payReq prop
    invoiceProp,\* RequestSummary: the invoice prop
    isExpired,  \* RequestSummary: useState(false)
    expiryDelta,\* RequestSummary: useState(timeExpireDate - now)
    effectDeps, \* RequestSummary: payReq the last run effect was set up for
    pendingEffects, \* RequestSummary: a committed render whose passive effects have not run
    view,       \* RequestSummary: the committed output of the last render
    now,        \* Date.now() / 1000
    fired       \* history: onExpire has fired since payReq last changed (or since mount)

vars == <<state, memo, ret, mounted, payReq, invoiceProp, isExpired, expiryDelta,
          effectDeps, pendingEffects, view, now, fired>>

storeVars == <<state, memo, ret>>
componentVars == <<mounted, payReq, invoiceProp, isExpired, expiryDelta,
                   effectDeps, pendingEffects, view, now, fired>>

----------------------------------------------------------------------------
(* JavaScript values *)

Undefined == [t |-> "undefined", v |-> ""]
Null == [t |-> "null", v |-> ""]
Str(s) == [t |-> "string", v |-> s]
Bool(b) == [t |-> "boolean", v |-> b]
Num(n) == [t |-> "number", v |-> n]
NaN == [t |-> "NaN", v |-> 0]
Arr(l) == [t |-> "array", v |-> l]
Obj(r) == [t |-> "object", v |-> r]
TypeError == [t |-> "TypeError", v |-> ""]
EmptyObject == Obj([k \in {} |-> Undefined])

IsThrown(x) == x.t = "TypeError"
IsNullish(x) == x.t \in {"undefined", "null"}

\* ToBoolean: undefined, null, "", false and NaN are falsy
Truthy(x) ==
    CASE x.t \in {"undefined", "null", "NaN"} -> FALSE
      [] x.t = "string" -> x.v # ""
      [] x.t = "boolean" -> x.v
      [] x.t = "number" -> x.v # 0
      [] OTHER -> TRUE

\* template-literal conversion `${x}` of the values used as path parts
TemplateString(x) ==
    CASE x.t = "string" -> x.v
      [] x.t = "null" -> "null"
      [] x.t = "undefined" -> "undefined"
      [] OTHER -> "[object]"

\* obj[key]: undefined for a missing key; reading a property of null or
\* undefined throws
Prop(obj, key) ==
    CASE IsThrown(obj) -> obj
      [] IsNullish(obj) -> TypeError
      [] obj.t = "object" -> IF key \in DOMAIN obj.v THEN obj.v[key] ELSE Undefined
      [] OTHER -> Undefined

\* arr[i] with a zero-based index
Index(arr, i) ==
    CASE IsThrown(arr) -> arr
      [] IsNullish(arr) -> TypeError
      [] arr.t = "array" -> IF i + 1 \in DOMAIN arr.v THEN arr.v[i + 1] ELSE Undefined
      [] OTHER -> Undefined

----------------------------------------------------------------------------
(* Strings *)

Char(s, i) == SubSeq(s, i, i)

\* position of the first occurrence of pat in s, 0 when there is none
IndexOf(s, pat) ==
    LET hits == {i \in 1..(Len(s) - Len(pat) + 1) : SubSeq(s, i, i + Len(pat) - 1) = pat}
    IN IF Len(pat) = 0 \/ hits = {} THEN 0
       ELSE CHOOSE i \in hits : \A j \in hits : i <= j

RECURSIVE Split(_, _)
\* String.prototype.split(sep) for a non-empty separator
Split(s, sep) ==
    LET i == IndexOf(s, sep)
    IN IF i = 0 THEN <<s>>
       ELSE <<SubSeq(s, 1, i - 1)>> \o Split(SubSeq(s, i + Len(sep), Len(s)), sep)

\* String.prototype.replace(pat, rep) with a string pattern: first occurrence only
Replace(s, pat, rep) ==
    LET i == IndexOf(s, pat)
    IN IF i = 0 THEN s
       ELSE SubSeq(s, 1, i - 1) \o rep \o SubSeq(s, i + Len(pat), Len(s))

Digits == "0123456789"
\* the characters of an identifier, in code-unit order
CodeUnits == "-0123456789ABCDEFGHIJKLMNOPQRSTUVWXYZabcdefghijklmnopqrstuvwxyz"

IsDigits(s) == Len(s) > 0 /\ \A i \in 1..Len(s) : IndexOf(Digits, Char(s, i)) > 0

RECURSIVE ToNumber(_)
ToNumber(s) ==
    IF Len(s) = 0 THEN 0
    ELSE 10 * ToNumber(SubSeq(s, 1, Len(s) - 1)) + (IndexOf(Digits, Char(s, Len(s))) - 1)

\* a < b on strings: by code unit, a proper prefix first
StringLess(a, b) ==
    \E i \in 1..(Len(b)) :
        /\ \A j \in 1..(i - 1) : j <= Len(a) /\ Char(a, j) = Char(b, j)
        /\ \/ i = Len(a) + 1
           \/ i <= Len(a) /\ IndexOf(CodeUnits, Char(a, i)) < IndexOf(CodeUnits, Char(b, i))

----------------------------------------------------------------------------
(* lodash/get *)

RECURSIVE BaseGet(_, _)
\* walk the path while the object is neither null nor undefined
BaseGet(obj, path) ==
    IF Len(path) = 0 THEN obj
    ELSE IF IsNullish(obj) THEN Undefined
    ELSE BaseGet(Prop(obj, Head(path)), Tail(path))

\* get(object, 'a.b.c', defaultValue): the default replaces undefined only
Get(obj, path, defaultValue) ==
    LET result == BaseGet(obj, Split(path, "."))
    IN IF result.t = "undefined" THEN defaultValue ELSE result

----------------------------------------------------------------------------
(* semver.gte *)

\* NUMERICIDENTIFIER: 0|[1-9]\d*
IsNumericIdentifier(s) == IsDigits(s) /\ (Len(s) = 1 \/ Char(s, 1) # "0")

\* PRERELEASEIDENTIFIER: a numeric identifier, or letters, digits and hyphens
\* with at least one non-digit
IsPrereleaseIdentifier(s) ==
    /\ Len(s) > 0
    /\ \A i \in 1..Len(s) : IndexOf(CodeUnits, Char(s, i)) > 0
    /\ IsDigits(s) => IsNumericIdentifier(s)

\* new SemVer(version): major, minor, patch and the prerelease identifiers;
\* valid is FALSE where the constructor throws TypeError('Invalid Version')
ParseSemVer(version) ==
    LET plain == IF Len(version) > 0 /\ Char(version, 1) = "v"
                 THEN SubSeq(version, 2, Len(version)) ELSE version
        plus == IndexOf(plain, "+")
        core == IF plus = 0 THEN plain ELSE SubSeq(plain, 1, plus - 1)
        dash == IndexOf(core, "-")
        main == Split(IF dash = 0 THEN core ELSE SubSeq(core, 1, dash - 1), ".")
        pre == IF dash = 0 THEN <<>> ELSE Split(SubSeq(core, dash + 1, Len(core)), ".")
        ok == /\ Len(main) = 3
              /\ \A i \in 1..Len(main) : IsNumericIdentifier(main[i])
              /\ \A i \in 1..Len(pre) : IsPrereleaseIdentifier(pre[i])
    IN IF ok
       THEN [valid |-> TRUE, major |-> ToNumber(main[1]), minor |-> ToNumber(main[2]),
             patch |-> ToNumber(main[3]), prerelease |-> pre]
       ELSE [valid |-> FALSE, major |-> 0, minor |-> 0, patch |-> 0, prerelease |-> <<>>]

CompareNumbers(a, b) == IF a = b THEN 0 ELSE IF a < b THEN -1 ELSE 1

\* compareIdentifiers(a, b) on strings: numeric identifiers compare as
\* numbers and sort before the others
CompareIdentifiers(a, b) ==
    LET anum == IsDigits(a)
        bnum == IsDigits(b)
    IN IF anum /\ bnum THEN CompareNumbers(ToNumber(a), ToNumber(b))
       ELSE IF a = b THEN 0
       ELSE IF anum /\ ~bnum THEN -1
       ELSE IF bnum /\ ~anum THEN 1
       ELSE IF StringLess(a, b) THEN -1 ELSE 1

\* SemVer.compareMain
CompareMain(a, b) ==
    IF CompareNumbers(a.major, b.major) # 0 THEN CompareNumbers(a.major, b.major)
    ELSE IF CompareNumbers(a.minor, b.minor) # 0 THEN CompareNumbers(a.minor, b.minor)
    ELSE CompareNumbers(a.patch, b.patch)

\* SemVer.comparePre: a release sorts after its prereleases; otherwise the
\* first differing identifier decides, a shorter list first
ComparePre(a, b) ==
    LET p == a.prerelease
        q == b.prerelease
        diff == {i \in 1..(IF Len(p) < Len(q) THEN Len(p) ELSE Len(q)) : p[i] # q[i]}
        first == CHOOSE i \in diff : \A j \in diff : i <= j
    IN IF Len(p) > 0 /\ Len(q) = 0 THEN -1
       ELSE IF Len(p) = 0 /\ Len(q) > 0 THEN 1
       ELSE IF diff # {} THEN CompareIdentifiers(p[first], q[first])
       ELSE CompareNumbers(Len(p), Len(q))

\* a comparison that forgets the prerelease identifiers
CompareIgnoringPrerelease(a, b) == CompareMain(a, b)

\* SemVer.compare
Compare(a, b) == IF CompareMain(a, b) # 0 THEN CompareMain(a, b) ELSE ComparePre(a, b)

\* semver.gte(a, b, options) on strings: a boolean, or the TypeError of an
\* invalid version
Gte(a, b) ==
    LET x == ParseSemVer(a)
        y == ParseSemVer(b)
    IN IF ~x.valid \/ ~y.valid THEN TypeError ELSE Bool(Compare(x, y) >= 0)

----------------------------------------------------------------------------
(* The store state and its plain selectors *)

\* state.info.data as received from the node; a missing field is undefined
InfoData(syncedToChain, version, identity_pubkey, uris, grpcProtoVersion) ==
    Obj([syncedToChain |-> syncedToChain, version |-> version,
         identity_pubkey |-> identity_pubkey, uris |-> uris,
         grpcProtoVersion |-> grpcProtoVersion])

\* state.info.chains
Chains ==
    Obj([bitcoin |-> Obj([name |-> Str("Bitcoin")]),
         litecoin |-> Obj([name |-> Str("Litecoin")])])

\* state.info.networks: one entry per chain and network
NetworkEntry(id, url) ==
    Obj([id |-> Str(id),
         explorerUrls |-> Obj([blockstream |-> Str(url \o "/blockstream"),
                               smartbit |-> Str(url \o "/smartbit")])])

Networks ==
    Obj([bitcoin |-> Obj([mainnet |-> NetworkEntry("mainnet", "btc"),
                          testnet |-> NetworkEntry("testnet", "tbtc")]),
         litecoin |-> Obj([mainnet |-> NetworkEntry("mainnet", "ltc")])])

MakeState(chain, network, data, invoices, invoice, blockExplorer) ==
    Obj([info |-> Obj([chain |-> chain, network |-> network, chains |-> Chains,
                       networks |-> Networks, data |-> data]),
         invoice |-> Obj([invoices |-> invoices, invoice |-> invoice]),
         settings |-> Obj([currentConfig |-> Obj([blockExplorer |-> blockExplorer])])])

InitialState == MakeState(Null, Null, EmptyObject, Arr(<<>>), Null, Str("blockstream"))

chainSelector(st) == Prop(Prop(st, "info"), "chain")
chainsSelector(st) == Prop(Prop(st, "info"), "chains")
networkSelector(st) == Prop(Prop(st, "info"), "network")
networksSelector(st) == Prop(Prop(st, "info"), "networks")
currentConfig(st) == Prop(Prop(st, "settings"), "currentConfig")

isSyncedToChainNoDefault(st) == Get(st, "info.data.syncedToChain", Undefined)

isSyncedToChain(st) == Get(st, "info.data.syncedToChain", Bool(FALSE))
version(st) == Get(st, "info.data.version", Undefined)
identityPubkey(st) == Get(st, "info.data.identity_pubkey", Undefined)
nodeUris(st) == Get(st, "info.data.uris", Undefined)
grpcProtoVersion(st) == Get(st, "info.data.grpcProtoVersion", Undefined)

----------------------------------------------------------------------------
(* reselect: createSelector keeps the last arguments and the last result *)

MemoizedSelectors ==
    {"versionString", "commitString", "hasRouterSupport", "hasSendPaymentV2Support",
     "hasMppSupport", "nodePubkey", "nodeUrisOrPubkey", "networkInfo", "chainName",
     "invoices", "invoice"}

EmptyMemo == [s \in MemoizedSelectors |-> [has |-> FALSE, args |-> <<>>, result |-> Undefined]]

\* a cache that looks at the first argument only
MemoHitFirstArgument(m, sel, args) ==
    m[sel].has /\ Len(args) > 0 /\ Head(m[sel].args) = Head(args)

\* defaultMemoize: the cached result is reused when every argument is the
\* cached one (===). Store values are never mutated in place, so an argument
\* that is the cached reference has the cached value; an equal value under a
\* new reference is recomputed to the same result.
MemoHit(m, sel, args) == m[sel].has /\ m[sel].args = args

ArgsThrew(args) == \E i \in 1..Len(args) : IsThrown(args[i])

\* the value a call returns: an input selector's error, the cached result, or
\* the result function's value
MemoValue(m, sel, args, fresh) ==
    IF ArgsThrew(args) THEN TypeError
    ELSE IF MemoHit(m, sel, args) THEN m[sel].result
    ELSE fresh

\* the cache after the call: a throwing call stores nothing
MemoAfter(m, sel, args, fresh) ==
    IF ArgsThrew(args) \/ MemoHit(m, sel, args) \/ IsThrown(fresh) THEN m
    ELSE [m EXCEPT ![sel] = [has |-> TRUE, args |-> args, result |-> fresh]]

NoCall == [sel |-> "", of |-> Undefined, val |-> Undefined]

----------------------------------------------------------------------------
(* info selectors: the result functions *)

\* v && v.split(' ')[0]
versionStringResult(v) == IF ~Truthy(v) THEN v ELSE Str(Split(v.v, " ")[1])

commitStringResult(v) ==
    IF ~Truthy(v) THEN Undefined
    ELSE LET parts == Split(v.v, " ")
             c == IF Len(parts) >= 2 THEN Str(parts[2]) ELSE Undefined
         IN IF Truthy(c) THEN Str(Replace(c.v, "commit=", "")) ELSE Undefined

RouterThreshold == "0.7.1-beta"
SendPaymentV2Threshold == "0.10.0-beta"
MppThreshold == "0.10.0-beta"
LaterThreshold == "0.11.0-beta"

hasRouterSupportResult(v) == IF ~Truthy(v) THEN Bool(FALSE) ELSE Gte(v.v, RouterThreshold)

hasSendPaymentV2SupportResult(v) ==
    IF ~Truthy(v) THEN Bool(FALSE) ELSE Gte(v.v, SendPaymentV2Threshold)

\* the MPP check against a later release
hasMppSupportLater(v) == IF ~Truthy(v) THEN Bool(FALSE) ELSE Gte(v.v, LaterThreshold)

hasMppSupportResult(v) == IF ~Truthy(v) THEN Bool(FALSE) ELSE Gte(v.v, MppThreshold)

\* x.split(sep)[0]; calling split on undefined or null throws
SplitFirst(x, sep) ==
    IF IsThrown(x) THEN x
    ELSE IF x.t = "string" THEN Str(Split(x.v, sep)[1])
    ELSE TypeError

\* pk || (n && n[0].split('@')[0])
nodePubkeyResult(n, pk) ==
    IF Truthy(pk) THEN pk
    ELSE IF ~Truthy(n) THEN n
    ELSE SplitFirst(Index(n, 0), "@")

\* uris || [pk]
nodeUrisOrPubkeyResult(uris, pk) == IF Truthy(uris) THEN uris ELSE Arr(<<pk>>)

\* { ...info, explorerUrl: info.explorerUrls[currentConfig.blockExplorer] }
networkInfoResult(chain, network, networks, config) ==
    LET info == Get(networks, TemplateString(chain) \o "." \o TemplateString(network),
                    EmptyObject)
        urls == Prop(info, "explorerUrls")
        key == Prop(config, "blockExplorer")
        explorerUrl == IF IsThrown(key) THEN key ELSE Prop(urls, TemplateString(key))
    IN IF IsThrown(explorerUrl) THEN TypeError
       ELSE Obj([k \in DOMAIN info.v \cup {"explorerUrl"} |->
                    IF k = "explorerUrl" THEN explorerUrl ELSE info.v[k]])

chainNameResult(chain, chains) == Get(chains, TemplateString(chain) \o ".name", Null)

----------------------------------------------------------------------------
(* Selector calls *)

\* one call of a memoized selector on the current store state
CallSelector(sel, m, args, fresh) ==
    /\ ret' = [sel |-> sel, of |-> state, val |-> MemoValue(m, sel, args, fresh)]
    /\ memo' = MemoAfter(m, sel, args, fresh)
    /\ UNCHANGED <<state, componentVars>>

\* one call of a plain selector
CallPlain(sel, value) ==
    /\ ret' = [sel |-> sel, of |-> state, val |-> value]
    /\ UNCHANGED <<state, memo, componentVars>>

Call_hasRouterSupport ==
    LET args == <<grpcProtoVersion(state)>>
    IN CallSelector("hasRouterSupport", memo, args, hasRouterSupportResult(args[1]))

Call_hasSendPaymentV2Support ==
    LET args == <<grpcProtoVersion(state)>>
    IN CallSelector("hasSendPaymentV2Support", memo, args,
                    hasSendPaymentV2SupportResult(args[1]))

Call_hasMppSupport ==
    LET args == <<grpcProtoVersion(state)>>
    IN CallSelector("hasMppSupport", memo, args, hasMppSupportResult(args[1]))

----------------------------------------------------------------------------
(* Component state while only selectors run *)

NoView == [status |-> "", color |-> "", countdown |-> FALSE, offset |-> NaN, payReq |-> Undefined]

ComponentIdle ==
    /\ mounted = FALSE
    /\ payReq = Undefined
    /\ invoiceProp = EmptyObject
    /\ isExpired = FALSE
    /\ expiryDelta = NaN
    /\ effectDeps = Undefined
    /\ pendingEffects = FALSE
    /\ view = NoView
    /\ now = 0
    /\ fired = FALSE

----------------------------------------------------------------------------
(* Capability flags: every protocol version of a grid, each flag called *)

MaxMajor == 1
MaxMinor == 11
MaxPatch == 2

\* prerelease tags in ascending precedence; the release itself ("") is last
Prereleases == <<"1", "alpha", "beta", "beta.1", "rc1", "">>

FormatVersion(major, minor, patch, pre) ==
    ToString(major) \o "." \o ToString(minor) \o "." \o ToString(patch)
        \o (IF Prereleases[pre] = "" THEN "" ELSE "-" \o Prereleases[pre])

VersionGrid == (0..MaxMajor) \X (0..MaxMinor) \X (0..MaxPatch) \X (1..Len(Prereleases))

GrpcProtoVersions ==
    {Undefined, Str("")} \cup {Str(FormatVersion(g[1], g[2], g[3], g[4])) : g \in VersionGrid}

FlagsInit ==
    /\ \E v \in GrpcProtoVersions :
          state = MakeState(Str("bitcoin"), Str("mainnet"),
                            InfoData(Undefined, Undefined, Undefined, Undefined, v),
                            Arr(<<>>), Null, Str("blockstream"))
    /\ memo = EmptyMemo
    /\ ret = NoCall
    /\ ComponentIdle

FlagsNext ==
    \/ Call_hasRouterSupport
    \/ Call_hasSendPaymentV2Support
    \/ Call_hasMppSupport

SpecFlags == FlagsInit /\ [][FlagsNext]_vars

\* the grpcProtoVersion field of a store state, read directly
ProtoVersionOf(st) ==
    LET d == st.v.info.v.data
    IN IF d.t = "object" /\ "grpcProtoVersion" \in DOMAIN d.v
       THEN d.v.grpcProtoVersion ELSE Undefined

\* semantic-version order on grid points: major, minor, patch, then the
\* precedence of the prerelease tag
AtLeast(g, t) ==
    \/ g[1] > t[1]
    \/ g[1] = t[1] /\ g[2] > t[2]
    \/ g[1] = t[1] /\ g[2] = t[2] /\ g[3] > t[3]
    \/ g[1] = t[1] /\ g[2] = t[2] /\ g[3] = t[3] /\ g[4] >= t[4]

BetaTag == CHOOSE i \in 1..Len(Prereleases) : Prereleases[i] = "beta"
RouterPoint == <<0, 7, 1, BetaTag>>
MppPoint == <<0, 10, 0, BetaTag>>

FlagPoint(sel) == IF sel = "hasRouterSupport" THEN RouterPoint ELSE MppPoint

CapabilityFlags == {"hasRouterSupport", "hasSendPaymentV2Support", "hasMppSupport"}

\* C1: each capability flag is true exactly when grpcProtoVersion is present
\* and at least its threshold in semantic-version order (0.7.1-beta for
\* hasRouterSupport, 0.10.0-beta for hasSendPaymentV2Support and
\* hasMppSupport); with grpcProtoVersion absent or empty every flag is false.
C1_FlagsFollowThreshold ==
    ret.sel \in CapabilityFlags =>
        /\ ~Truthy(ProtoVersionOf(ret.of)) => ret.val = Bool(FALSE)
        /\ \A g \in VersionGrid :
              ProtoVersionOf(ret.of) = Str(FormatVersion(g[1], g[2], g[3], g[4]))
                  => ret.val = Bool(AtLeast(g, FlagPoint(ret.sel)))

\* a prerelease of the threshold's own version, below the threshold, was
\* answered false by hasRouterSupport
C1_Witness ==
    /\ ret.sel = "hasRouterSupport"
    /\ ProtoVersionOf(ret.of) = Str("0.7.1-alpha")
    /\ ret.val = Bool(FALSE)

\* the value a call of a capability flag returns in the current state
FlagNow(sel) ==
    LET v == grpcProtoVersion(state)
    IN MemoValue(memo, sel, <<v>>,
                 CASE sel = "hasRouterSupport" -> hasRouterSupportResult(v)
                   [] sel = "hasSendPaymentV2Support" -> hasSendPaymentV2SupportResult(v)
                   [] OTHER -> hasMppSupportResult(v))

\* C10: in every store state hasMppSupport and hasSendPaymentV2Support agree,
\* and either of them being true implies hasRouterSupport.
C10_FlagsConsistent ==
    /\ FlagNow("hasMppSupport") = FlagNow("hasSendPaymentV2Support")
    /\ Truthy(FlagNow("hasMppSupport")) => Truthy(FlagNow("hasRouterSupport"))
    /\ Truthy(FlagNow("hasSendPaymentV2Support")) => Truthy(FlagNow("hasRouterSupport"))

\* all three flags were called on a node at the MPP threshold and MPP is on
C10_Witness ==
    /\ ret.sel = "hasMppSupport"
    /\ ret.val = Bool(TRUE)
    /\ ProtoVersionOf(state) = Str("0.10.0-beta")
    /\ memo["hasRouterSupport"].has
    /\ memo["hasSendPaymentV2Support"].has

----------------------------------------------------------------------------
(* Default values: store states with info.data or fields of it missing *)

Call_isSyncedToChain == CallPlain("isSyncedToChain", isSyncedToChain(state))
Call_version == CallPlain("version", version(state))
Call_identityPubkey == CallPlain("identityPubkey", identityPubkey(state))
Call_grpcProtoVersion == CallPlain("grpcProtoVersion", grpcProtoVersion(state))

Call_versionString ==
    LET args == <<version(state)>>
    IN CallSelector("versionString", memo, args, versionStringResult(args[1]))

Call_commitString ==
    LET args == <<version(state)>>
    IN CallSelector("commitString", memo, args, commitStringResult(args[1]))

Call_chainName ==
    LET args == <<chainSelector(state), chainsSelector(state)>>
    IN CallSelector("chainName", memo, args, chainNameResult(args[1], args[2]))

SyncedValues == {Undefined, Bool(TRUE), Bool(FALSE)}
VersionValues == {Undefined, Str("0.9.0-beta commit=v0.9.0-beta"), Str("0.9.0-beta")}
PubkeyValues == {Undefined, Str(""), Str("02abc")}
ChainValues == {Null, Str("bitcoin"), Str("litecoin"), Str("dogecoin")}

DefaultsData ==
    {Undefined, Null, EmptyObject}
        \cup {InfoData(sy, ve, pk, Undefined, gv) :
                sy \in SyncedValues, ve \in VersionValues, pk \in PubkeyValues,
                gv \in {Undefined, Str("0.9.0-beta")}}

DefaultsInit ==
    /\ \E chain \in ChainValues, data \in DefaultsData :
          state = MakeState(chain, Str("mainnet"), data, Arr(<<>>), Null, Str("blockstream"))
    /\ memo = EmptyMemo
    /\ ret = NoCall
    /\ ComponentIdle

DefaultsNext ==
    \/ Call_isSyncedToChain
    \/ Call_version
    \/ Call_identityPubkey
    \/ Call_grpcProtoVersion
    \/ Call_versionString
    \/ Call_commitString
    \/ Call_chainName

SpecDefaults == DefaultsInit /\ [][DefaultsNext]_vars

\* a field of info.data read directly: undefined when info.data or the field
\* is missing
DataFieldOf(st, f) ==
    LET d == st.v.info.v.data
    IN IF d.t = "object" /\ f \in DOMAIN d.v THEN d.v[f] ELSE Undefined

\* the current chain has an entry with a name in info.chains
ChainHasName(st) ==
    LET chain == st.v.info.v.chain
        chains == st.v.info.v.chains.v
    IN /\ chain.t = "string"
       /\ chain.v \in DOMAIN chains
       /\ "name" \in DOMAIN chains[chain.v].v

DefaultingSelectors ==
    {"isSyncedToChain", "version", "versionString", "commitString", "identityPubkey",
     "grpcProtoVersion", "chainName"}

\* C3: with info.data or the field absent, isSyncedToChain returns false,
\* version, versionString, commitString, identityPubkey and grpcProtoVersion
\* return undefined, chainName returns null when the chain has no entry with
\* a name, and none of them raises an error.
C3_DefaultsOnAbsentFields ==
    ret.sel \in DefaultingSelectors =>
        /\ ~IsThrown(ret.val)
        /\ ret.sel = "isSyncedToChain" /\ DataFieldOf(ret.of, "syncedToChain") = Undefined
              => ret.val = Bool(FALSE)
        /\ ret.sel \in {"version", "versionString", "commitString"}
              /\ DataFieldOf(ret.of, "version") = Undefined
              => ret.val = Undefined
        /\ ret.sel = "identityPubkey" /\ DataFieldOf(ret.of, "identity_pubkey") = Undefined
              => ret.val = Undefined
        /\ ret.sel = "grpcProtoVersion" /\ DataFieldOf(ret.of, "grpcProtoVersion") = Undefined
              => ret.val = Undefined
        /\ ret.sel = "chainName" /\ ~ChainHasName(ret.of) => ret.val = Null

\* isSyncedToChain was called on a store state without info.data and
\* answered false
C3_Witness ==
    /\ ret.sel = "isSyncedToChain"
    /\ ret.of.v.info.v.data = Undefined
    /\ ret.val = Bool(FALSE)

----------------------------------------------------------------------------
(* Node identity: nodePubkey and nodeUrisOrPubkey *)

Call_nodePubkey ==
    LET args == <<nodeUris(state), identityPubkey(state)>>
    IN CallSelector("nodePubkey", memo, args, nodePubkeyResult(args[1], args[2]))

\* nodePubkey is an input selector of nodeUrisOrPubkey: its cache is used and
\* updated by the call
Call_nodeUrisOrPubkey ==
    LET pkArgs == <<nodeUris(state), identityPubkey(state)>>
        pkFresh == nodePubkeyResult(pkArgs[1], pkArgs[2])
        args == <<nodeUris(state), MemoValue(memo, "nodePubkey", pkArgs, pkFresh)>>
    IN CallSelector("nodeUrisOrPubkey", MemoAfter(memo, "nodePubkey", pkArgs, pkFresh),
                    args, nodeUrisOrPubkeyResult(args[1], args[2]))

MaxUris == 2

UriStrings == {Str("02abc@host:9735"), Str("03def@onion:9735"), Str("02abc")}

UriLists ==
    {Undefined} \cup {Arr(l) : l \in UNION {[1..n -> UriStrings] : n \in 0..MaxUris}}

NodeData ==
    {Undefined, EmptyObject}
        \cup {InfoData(Undefined, Undefined, pk, uris, Undefined) :
                pk \in PubkeyValues, uris \in UriLists}

NodeInit ==
    /\ \E data \in NodeData :
          state = MakeState(Str("bitcoin"), Str("mainnet"), data, Arr(<<>>), Null,
                            Str("blockstream"))
    /\ memo = EmptyMemo
    /\ ret = NoCall
    /\ ComponentIdle

NodeNext ==
    \/ Call_identityPubkey
    \/ Call_nodePubkey
    \/ Call_nodeUrisOrPubkey

SpecNode == NodeInit /\ [][NodeNext]_vars

\* the part of a uri before '@', spelled out for the uris of UriStrings
PubkeyOfUri(uri) ==
    CASE uri = Str("02abc@host:9735") -> Str("02abc")
      [] uri = Str("03def@onion:9735") -> Str("03def")
      [] OTHER -> uri

\* C6: nodePubkey returns identity_pubkey when it is set, otherwise the part
\* of the first uri before '@', otherwise (no pubkey and no uris, or an empty
\* uris list) an absent value, and never raises an error.
C6_NodePubkeyNeverRaises ==
    ret.sel = "nodePubkey" =>
        LET pk == DataFieldOf(ret.of, "identity_pubkey")
            uris == DataFieldOf(ret.of, "uris")
        IN /\ ~IsThrown(ret.val)
           /\ ret.val = IF Truthy(pk) THEN pk
                        ELSE IF uris.t = "array" /\ Len(uris.v) > 0
                             THEN PubkeyOfUri(uris.v[1])
                             ELSE Undefined

\* C7: nodeUrisOrPubkey returns info.data.uris when uris are available and
\* otherwise the one-element list holding nodePubkey (an error of nodePubkey
\* is the call's error); whenever the node has an identity_pubkey or at least
\* one uri the returned list is non-empty and holds no absent element.
C7_UrisOrPubkeyNonEmpty ==
    ret.sel = "nodeUrisOrPubkey" =>
        LET pk == DataFieldOf(ret.of, "identity_pubkey")
            uris == DataFieldOf(ret.of, "uris")
            available == uris.t = "array" /\ Len(uris.v) > 0
            nodePubkey == nodePubkeyResult(uris, pk)
        IN /\ ret.val = IF available THEN uris
                        ELSE IF IsThrown(nodePubkey) THEN nodePubkey
                        ELSE Arr(<<nodePubkey>>)
           /\ Truthy(pk) \/ available =>
                 /\ ret.val.t = "array"
                 /\ Len(ret.val.v) > 0
                 /\ \A i \in 1..Len(ret.val.v) : ~IsNullish(ret.val.v[i])

----------------------------------------------------------------------------
(* Network info *)

Call_networkInfo ==
    LET args == <<chainSelector(state), networkSelector(state), networksSelector(state),
                  currentConfig(state)>>
    IN CallSelector("networkInfo", memo, args,
                    networkInfoResult(args[1], args[2], args[3], args[4]))

NetworkValues == {Null, Str("mainnet"), Str("testnet"), Str("regtest")}
BlockExplorers == {Str("blockstream"), Str("smartbit"), Str("insight")}

NetworkInit ==
    /\ \E chain \in ChainValues, network \in NetworkValues, explorer \in BlockExplorers :
          state = MakeState(chain, network, EmptyObject, Arr(<<>>), Null, explorer)
    /\ memo = EmptyMemo
    /\ ret = NoCall
    /\ ComponentIdle

NetworkNext ==
    \/ Call_networkInfo
    \/ Call_chainName

SpecNetwork == NetworkInit /\ [][NetworkNext]_vars

\* the entry of info.networks for the current chain and network, read
\* directly: the empty record when there is none
NetworkEntryOf(st) ==
    LET chain == st.v.info.v.chain
        network == st.v.info.v.network
        networks == st.v.info.v.networks.v
    IN IF /\ chain.t = "string" /\ chain.v \in DOMAIN networks
          /\ network.t = "string" /\ network.v \in DOMAIN networks[chain.v].v
       THEN networks[chain.v].v[network.v]
       ELSE EmptyObject

\* C2: networkInfo never raises an error: it returns a record made of the
\* fields of the entry for the current chain and network (the empty record
\* when there is none) plus explorerUrl.
C2_NetworkInfoNeverRaises ==
    ret.sel = "networkInfo" =>
        /\ ~IsThrown(ret.val)
        /\ ret.val.t = "object"
        /\ DOMAIN ret.val.v = DOMAIN NetworkEntryOf(ret.of).v \cup {"explorerUrl"}
        /\ \A k \in DOMAIN NetworkEntryOf(ret.of).v : ret.val.v[k] = NetworkEntryOf(ret.of).v[k]

----------------------------------------------------------------------------
(* invoice selectors *)

invoicesSelector(st) == Prop(Prop(st, "invoice"), "invoices")
invoiceSelector(st) == Prop(Prop(st, "invoice"), "invoice")

\* an invoice record of state.invoice.invoices; a keysend invoice has no
\* paymentRequest
Invoice(paymentRequest, isSettled) ==
    Obj([paymentRequest |-> paymentRequest, isSettled |-> Bool(isSettled)])

\* decorateInvoice (./utils): the invoice's own fields plus the decoration
decorateInvoice(inv) ==
    IF inv.t # "object" THEN TypeError
    ELSE Obj([k \in DOMAIN inv.v \cup {"type"} |->
                 IF k = "type" THEN Str("invoice") ELSE inv.v[k]])

\* a === b
StrictEquals(a, b) == a.t = b.t /\ a.v = b.v

\* item.map(decorateInvoice)
invoicesResult(item) ==
    IF item.t # "array" THEN TypeError
    ELSE Arr([i \in 1..Len(item.v) |-> decorateInvoice(item.v[i])])

\* allInvoices.find(item => item.paymentRequest === paymentRequest): the
\* first match, undefined when there is none
invoiceResult(allInvoices, paymentRequest) ==
    LET hits == {i \in 1..Len(allInvoices.v) :
                    StrictEquals(Prop(allInvoices.v[i], "paymentRequest"), paymentRequest)}
    IN IF hits = {} THEN Undefined
       ELSE allInvoices.v[CHOOSE i \in hits : \A j \in hits : i <= j]

Call_invoices ==
    LET args == <<invoicesSelector(state)>>
    IN CallSelector("invoices", memo, args, invoicesResult(args[1]))

\* invoices is an input selector of invoice
Call_invoice ==
    LET listArgs == <<invoicesSelector(state)>>
        listFresh == invoicesResult(listArgs[1])
        args == <<MemoValue(memo, "invoices", listArgs, listFresh), invoiceSelector(state)>>
    IN CallSelector("invoice", MemoAfter(memo, "invoices", listArgs, listFresh),
                    args, invoiceResult(args[1], args[2]))

MaxInvoices == 2

PaymentRequests == {Str("lnbc1"), Str("lnbc2")}
RawInvoices ==
    {Invoice(pr, settled) : pr \in PaymentRequests \cup {Undefined}, settled \in BOOLEAN}
InvoiceLists == {Arr(l) : l \in UNION {[1..n -> RawInvoices] : n \in 0..MaxInvoices}}
SelectedInvoices == PaymentRequests \cup {Null, Str("lnbc3")}

InvoiceInit ==
    /\ \E list \in InvoiceLists, selected \in SelectedInvoices :
          state = MakeState(Str("bitcoin"), Str("mainnet"), EmptyObject, list, selected,
                            Str("blockstream"))
    /\ memo = EmptyMemo
    /\ ret = NoCall
    /\ ComponentIdle

InvoiceNext ==
    \/ Call_invoices
    \/ Call_invoice

SpecInvoice == InvoiceInit /\ [][InvoiceNext]_vars

\* C5: the invoice selector returns the decorated form of the first invoice
\* whose paymentRequest equals state.invoice.invoice, and null when no
\* invoice matches.
C5_SelectedInvoiceOrNull ==
    ret.sel = "invoice" =>
        LET list == ret.of.v.invoice.v.invoices.v
            selected == ret.of.v.invoice.v.invoice
            hits == {i \in 1..Len(list) : list[i].v.paymentRequest = selected}
        IN IF hits = {} THEN ret.val = Null
           ELSE \E i \in hits :
                   /\ \A j \in hits : i <= j
                   /\ ret.val = decorateInvoice(list[i])

----------------------------------------------------------------------------
(* Memoization: store updates between the calls *)

MemoInfoData ==
    {InfoData(Undefined, Undefined, pk, uris, Undefined) :
        pk \in {Undefined, Str("02abc")},
        uris \in {Undefined, Arr(<<>>), Arr(<<Str("03def@onion:9735")>>)}}

MemoInvoiceLists ==
    {Arr(<<>>), Arr(<<Invoice(Str("lnbc1"), FALSE)>>),
     Arr(<<Invoice(Str("lnbc1"), TRUE), Invoice(Str("lnbc2"), FALSE)>>)}

\* the store states of this specification: the node's info or the invoices
\* differ from the initial state
MemoStates ==
    {MakeState(Null, Null, data, Arr(<<>>), Null, Str("blockstream")) : data \in MemoInfoData}
        \cup {MakeState(Null, Null, EmptyObject, list, selected, Str("blockstream")) :
                 list \in MemoInvoiceLists, selected \in {Null, Str("lnbc1"), Str("lnbc2")}}

\* a reducer replaces the store state; the last call was made on the old one
StoreUpdate ==
    /\ \E next \in MemoStates : next # state /\ state' = next
    /\ ret' = NoCall
    /\ UNCHANGED <<memo, componentVars>>

MemoInit ==
    /\ state \in MemoStates
    /\ memo = EmptyMemo
    /\ ret = NoCall
    /\ ComponentIdle

MemoNext ==
    \/ StoreUpdate
    \/ Call_nodePubkey
    \/ Call_nodeUrisOrPubkey
    \/ Call_invoices
    \/ Call_invoice

SpecMemo == MemoInit /\ [][MemoNext]_vars

\* the un-memoized derivation: the input selectors and the result function
\* applied to one store state
Derive(sel, st) ==
    LET pk == nodePubkeyResult(nodeUris(st), identityPubkey(st))
        all == invoicesResult(invoicesSelector(st))
    IN CASE sel = "nodePubkey" -> pk
         [] sel = "nodeUrisOrPubkey" ->
                IF IsThrown(pk) THEN pk ELSE nodeUrisOrPubkeyResult(nodeUris(st), pk)
         [] sel = "invoices" -> all
         [] sel = "invoice" ->
                IF IsThrown(all) THEN all ELSE invoiceResult(all, invoiceSelector(st))

\* C4: whatever calls and store updates came before, a memoized selector
\* returns for a store state the value its un-memoized derivation computes
\* from that state alone.
C4_MemoizationTransparent ==
    ret.sel \in {"nodePubkey", "nodeUrisOrPubkey", "invoices", "invoice"}
        => ret.val = Derive(ret.sel, ret.of)

\* nodePubkey answered from a cache that was filled on an earlier store
\* state and refilled since: the cached arguments are the current ones
C4_Witness ==
    /\ ret.sel = "nodePubkey"
    /\ ret.of = state
    /\ memo["nodePubkey"].has
    /\ memo["nodePubkey"].args = <<nodeUris(state), identityPubkey(state)>>
    /\ memo["nodeUrisOrPubkey"].has
    /\ memo["nodeUrisOrPubkey"].args[1] # nodeUris(state)
    /\ ret.val = Str("03def")

----------------------------------------------------------------------------
(* RequestSummary *)

MaxPayReqs == 2
MaxNow == 2

\* payment requests "lnbc1", "lnbc2", ...; no payReq for a keysend payment
PayReqs == {Undefined} \cup {Str("lnbc" \o ToString(k)) : k \in 1..MaxPayReqs}

InvoiceProps == {Undefined, Obj([isSettled |-> Bool(TRUE)]), Obj([isSettled |-> Bool(FALSE)])}

\* decodePayReq (@zap/utils/crypto): the decoded request carries the expiry
\* date the request encodes
decodePayReq(p) == Obj([timeExpireDate |-> Num(ToNumber(SubSeq(p, 5, Len(p))))])

\* useMemo(() => (payReq ? decodePayReq(payReq) : {}), [payReq])
decodedInvoice(p) == IF Truthy(p) THEN decodePayReq(p.v) ELSE EmptyObject

\* decodedInvoice.timeExpireDate - Date.now() / 1000
ExpiryDeltaAt(p, t) ==
    LET date == Prop(decodedInvoice(p), "timeExpireDate")
    IN IF date.t = "number" THEN Num(date.v - t) ELSE NaN

\* the invoice parameter defaults to {}
InvoiceOf(inv) == IF inv.t = "undefined" THEN EmptyObject ELSE inv

\* a status colour that looks at the expiry first
getStatusColorExpiredFirst(inv, expired) ==
    IF expired THEN "superRed"
    ELSE IF Truthy(Prop(InvoiceOf(inv), "isSettled")) THEN "superGreen"
    ELSE "primaryAccent"

getStatusColor(inv, expired) ==
    IF Truthy(Prop(InvoiceOf(inv), "isSettled")) THEN "superGreen"
    ELSE IF expired THEN "superRed" ELSE "primaryAccent"

\* the status row of one render: the paid text for a settled invoice,
\* otherwise the Countdown (with its offset and onExpire) and the not-paid text
Render(p, inv, expired, delta) ==
    IF Truthy(Prop(InvoiceOf(inv), "isSettled"))
    THEN [status |-> "paid", color |-> getStatusColor(inv, expired), countdown |-> FALSE,
          offset |-> NaN, payReq |-> p]
    ELSE [status |-> "not_paid", color |-> getStatusColor(inv, expired), countdown |-> TRUE,
          offset |-> delta, payReq |-> p]

\* first render: the initial state values; the effect runs after the commit
Mount ==
    /\ ~mounted
    /\ \E p \in PayReqs, inv \in InvoiceProps :
          /\ payReq' = p
          /\ invoiceProp' = inv
          /\ expiryDelta' = ExpiryDeltaAt(p, now)
          /\ view' = Render(p, inv, FALSE, ExpiryDeltaAt(p, now))
    /\ mounted' = TRUE
    /\ isExpired' = FALSE
    /\ effectDeps' = Null
    /\ pendingEffects' = TRUE
    /\ fired' = FALSE
    /\ UNCHANGED <<now, storeVars>>

\* the parent passes new props: the component renders with them and its
\* current state and commits; the effect is scheduled when payReq (hence
\* decodedInvoice) changed. Pending effects are flushed before a new render.
PropsChange ==
    /\ mounted
    /\ ~pendingEffects
    /\ \E p \in PayReqs, inv \in InvoiceProps :
          /\ <<p, inv>> # <<payReq, invoiceProp>>
          /\ payReq' = p
          /\ invoiceProp' = inv
          /\ view' = Render(p, inv, isExpired, expiryDelta)
          /\ pendingEffects' = (p # payReq)
          /\ fired' = IF p # payReq THEN FALSE ELSE fired
    /\ UNCHANGED <<mounted, isExpired, expiryDelta, effectDeps, now, storeVars>>

\* the passive effects of the last commit: the previous effect's cleanup
\* (setIsExpired(false)), then the effect (setExpiryDelta), then the
\* re-render with the new state
FlushEffects ==
    /\ mounted
    /\ pendingEffects
    /\ isExpired' = IF effectDeps # Null THEN FALSE ELSE isExpired
    /\ expiryDelta' = ExpiryDeltaAt(payReq, now)
    /\ effectDeps' = payReq
    /\ pendingEffects' = FALSE
    /\ view' = Render(payReq, invoiceProp, isExpired', expiryDelta')
    /\ UNCHANGED <<mounted, payReq, invoiceProp, now, fired, storeVars>>

\* the Countdown of the committed render calls onExpire: setIsExpired(true)
\* and a re-render. Effects still pending are flushed before that render; the
\* order in which a pending cleanup's setIsExpired(false) and this
\* setIsExpired(true) are applied is the scheduler's.
OnExpire ==
    /\ mounted
    /\ view.countdown
    /\ \E e \in (IF pendingEffects /\ effectDeps # Null THEN BOOLEAN ELSE {TRUE}) :
          isExpired' = e
    /\ expiryDelta' = IF pendingEffects THEN ExpiryDeltaAt(payReq, now) ELSE expiryDelta
    /\ effectDeps' = IF pendingEffects THEN payReq ELSE effectDeps
    /\ pendingEffects' = FALSE
    /\ view' = Render(payReq, invoiceProp, isExpired', expiryDelta')
    /\ fired' = TRUE
    /\ UNCHANGED <<mounted, payReq, invoiceProp, now, storeVars>>

\* unmount: the cleanup runs and the component's state is dropped
Unmount ==
    /\ mounted
    /\ mounted' = FALSE
    /\ payReq' = Undefined
    /\ invoiceProp' = EmptyObject
    /\ isExpired' = FALSE
    /\ expiryDelta' = NaN
    /\ effectDeps' = Undefined
    /\ pendingEffects' = FALSE
    /\ view' = NoView
    /\ fired' = FALSE
    /\ UNCHANGED <<now, storeVars>>

\* time passes
Tick ==
    /\ now < MaxNow
    /\ now' = now + 1
    /\ UNCHANGED <<mounted, payReq, invoiceProp, isExpired, expiryDelta, effectDeps,
                   pendingEffects, view, fired, storeVars>>

RequestInit ==
    /\ state = InitialState
    /\ memo = EmptyMemo
    /\ ret = NoCall
    /\ ComponentIdle

RequestNext ==
    \/ Mount
    \/ PropsChange
    \/ FlushEffects
    \/ OnExpire
    \/ Unmount
    \/ Tick

SpecRequest == RequestInit /\ [][RequestNext]_vars

Settled == Truthy(Prop(InvoiceOf(invoiceProp), "isSettled"))

\* C8: a settled invoice is shown as paid in superGreen whatever isExpired
\* is, and without a Countdown; an unsettled invoice is shown with the
\* Countdown, in superRed exactly when isExpired is true and in primaryAccent
\* otherwise.
C8_SettlementFirst ==
    mounted =>
        /\ Settled => view.status = "paid" /\ view.color = "superGreen" /\ ~view.countdown
        /\ ~Settled =>
              /\ view.status = "not_paid"
              /\ view.countdown
              /\ view.color = IF isExpired THEN "superRed" ELSE "primaryAccent"

\* an invoice that expired and was then settled is shown as paid
C8_Witness ==
    /\ mounted
    /\ Settled
    /\ isExpired
    /\ view.color = "superGreen"
    /\ view.status = "paid"

\* C9: isExpired follows the payment request: the committed view shows a
\* request as expired only if onExpire has fired since that request became
\* the payReq (or since mount).
C9_ExpiryFollowsPayReq ==
    mounted /\ view.color = "superRed" => fired

====
